---- MODULE Spec2Model ----
(***************************************************************************)
(* content-manager: a CLI that checks files out of a hosted repository,    *)
(* optionally transforms them, and checks them back in under an            *)
(* optimistic-concurrency precondition (the file's revision marker).       *)
(*                                                                         *)
(* Modelled: the repository client (github-client.ts), the checkout,       *)
(* checkin and update commands (the command surface), the local content    *)
(* files with their .meta.json sidecars, and the remote content API the    *)
(* client talks to.  One command runs per OS process; processes            *)
(* interleave at every remote call and every file-system call.             *)
(***************************************************************************)
EXTENDS Integers, Sequences, FiniteSets, TLC

\* ------------------------------------------------------------------ bounds

\* Commands started in one behaviour (also the range of the wall clock).
MaxCmds == 3

\* Operator edits of local content files in one behaviour.
MaxEdits == 1

\* ------------------------------------------------------------ text values
\* A text is a sequence of one-character strings (UTF-16 code units, all
\* ASCII here).

\* ASCII code of every character the model uses.
CharCode ==
  [c \in {"a", "b", "c", "t", "h", "i", "H", "!", ">", " "} |->
     CASE c = "a" -> 97  [] c = "b" -> 98  [] c = "c" -> 99
       [] c = "t" -> 116 [] c = "h" -> 104 [] c = "i" -> 105
       [] c = "H" -> 72  [] c = "!" -> 33  [] c = ">" -> 62
       [] c = " " -> 32]

\* Buffer.from(text): the UTF-8 bytes of an ASCII text.
Utf8Bytes(s) == [i \in 1..Len(s) |-> CharCode[s[i]]]

\* buffer.toString("utf-8") for ASCII bytes.
Utf8Text(bs) ==
  [i \in 1..Len(bs) |-> CHOOSE c \in DOMAIN CharCode : CharCode[c] = bs[i]]

\* Base64 text is a sequence of sextets 0..63; B64Pad stands for "=".
B64Pad == 64

Drop(s, n) == SubSeq(s, n + 1, Len(s))

RECURSIVE B64Encode(_)
\* buffer.toString("base64")
B64Encode(bs) ==
  IF Len(bs) = 0 THEN << >>
  ELSE IF Len(bs) = 1 THEN
    << bs[1] \div 4, (bs[1] % 4) * 16, B64Pad, B64Pad >>
  ELSE IF Len(bs) = 2 THEN
    << bs[1] \div 4, (bs[1] % 4) * 16 + bs[2] \div 16, (bs[2] % 16) * 4, B64Pad >>
  ELSE
    << bs[1] \div 4, (bs[1] % 4) * 16 + bs[2] \div 16,
       (bs[2] % 16) * 4 + bs[3] \div 64, bs[3] % 64 >> \o B64Encode(Drop(bs, 3))

RECURSIVE B64Decode(_)
\* Buffer.from(text, "base64")
B64Decode(t) ==
  IF Len(t) < 4 THEN << >>
  ELSE
    LET b1 == t[1] * 4 + t[2] \div 16
        b2 == (t[2] % 16) * 16 + t[3] \div 4
        b3 == (t[3] % 4) * 64 + t[4]
    IN  IF t[3] = B64Pad THEN << b1 >>
        ELSE IF t[4] = B64Pad THEN << b1, b2 >>
        ELSE << b1, b2, b3 >> \o B64Decode(Drop(t, 4))

\* github-client.ts:79 and :107
EncodeContent(content) == B64Encode(Utf8Bytes(content))

\* github-client.ts:53
DecodeContent(data) == Utf8Text(B64Decode(data))

\* ---------------------------------------------------- String.split / join

\* TRUE iff sep occurs in s starting at index i (1-based).
OccursAt(s, sep, i) ==
  /\ i >= 1
  /\ i + Len(sep) - 1 <= Len(s)
  /\ SubSeq(s, i, i + Len(sep) - 1) = sep

\* Index of the leftmost occurrence of sep in s, 0 when there is none.
IndexOf(s, sep) ==
  IF \E i \in 1..Len(s) : OccursAt(s, sep, i)
  THEN CHOOSE i \in 1..Len(s) :
         /\ OccursAt(s, sep, i)
         /\ \A j \in 1..(i - 1) : ~OccursAt(s, sep, j)
  ELSE 0

RECURSIVE SplitFrom(_, _)
SplitFrom(s, sep) ==
  LET i == IndexOf(s, sep)
  IN  IF i = 0 THEN << s >>
      ELSE << SubSeq(s, 1, i - 1) >> \o SplitFrom(Drop(s, i + Len(sep) - 1), sep)

\* One split only: what String.prototype.replace(find, replace) would touch.
SplitFirstOnly(s, sep) ==
  LET i == IndexOf(s, sep)
  IN  IF i = 0 THEN << s >>
      ELSE << SubSeq(s, 1, i - 1), Drop(s, i + Len(sep) - 1) >>

\* content.split(find), find a non-empty text: the pieces between the
\* non-overlapping occurrences of find, found left to right.
Split(s, sep) == SplitFrom(s, sep)

RECURSIVE Join(_, _)
\* pieces.join(replace)
Join(pieces, rep) ==
  IF Len(pieces) = 0 THEN << >>
  ELSE IF Len(pieces) = 1 THEN pieces[1]
  ELSE pieces[1] \o rep \o Join(Tail(pieces), rep)

\* ------------------------------------------------------------- the remote
\* The hosted repository behind octokit.repos.getContent and
\* octokit.repos.createOrUpdateFileContents.  On two branches it holds a
\* directory docs with the file docs/a (the one the commands write), a
\* file docs/b, a symbolic link docs/l and a sub-directory docs/img; path x
\* does not exist and path secret is refused with status 403.

Branches == {"main", "dev"}

RFile == << "docs", "a" >>
RDir == << "docs" >>
RNone == << "x" >>
RFixed == << "docs", "b" >>
RLink == << "docs", "l" >>
RSub == << "docs", "img" >>
RDenied == << "secret" >>
RemotePaths == {RFile, RDir, RNone}

\* Revision marker of a file version (the "sha" of getContent), identifier
\* and page of a commit (commit.sha, commit.html_url of a write).
Blob(n) == << "blob", n >>
Commit(n) == << "commit", n >>
Url(n) == << "url", n >>
NoSha == << "none", 0 >>

DefaultMessage == "Update content"

\* The entries of directory docs, in the order the remote lists them.
DirEntries ==
  << [type |-> "dir", path |-> RSub], [type |-> "file", path |-> RFixed],
     [type |-> "symlink", path |-> RLink], [type |-> "file", path |-> RFile] >>

NoData ==
  [status |-> 404, error |-> "Http404", isArray |-> FALSE, entries |-> << >>,
   type |-> "", content |-> << >>, sha |-> NoSha, path |-> << >>, encoding |-> ""]

\* octokit.repos.getContent({path, ref}): status 200 with an array for a
\* directory and with the object for a file or link; an error status (the
\* RequestError octokit throws) otherwise.
RemoteGet(rem, path, ref) ==
  IF ref \notin Branches THEN [NoData EXCEPT !.path = path]
  ELSE IF path = RFile THEN
    [NoData EXCEPT !.status = 200, !.error = "", !.type = "file",
                   !.content = rem[ref].content, !.sha = rem[ref].sha,
                   !.path = path, !.encoding = "base64"]
  ELSE IF path = RFixed THEN
    [NoData EXCEPT !.status = 200, !.error = "", !.type = "file",
                   !.content = EncodeContent(<< "b" >>), !.sha = Blob(0),
                   !.path = path, !.encoding = "base64"]
  ELSE IF path = RLink THEN
    [NoData EXCEPT !.status = 200, !.error = "", !.type = "symlink",
                   !.sha = Blob(0), !.path = path]
  ELSE IF path = RDir THEN
    [NoData EXCEPT !.status = 200, !.error = "", !.isArray = TRUE,
                   !.entries = DirEntries, !.path = path]
  ELSE IF path = RSub THEN
    [NoData EXCEPT !.status = 200, !.error = "", !.isArray = TRUE, !.path = path]
  ELSE IF path = RDenied THEN
    [NoData EXCEPT !.status = 403, !.error = "Http403", !.path = path]
  ELSE [NoData EXCEPT !.path = path]

\* Whether the remote accepts the write: the request's sha must be the
\* file's current revision marker; a request without sha is unconditional.
RemoteAccepts(rem, req) ==
  /\ req.path = RFile
  /\ req.branch \in Branches
  /\ \/ req.sha = NoSha
     \/ req.sha = rem[req.branch].sha

\* octokit.repos.createOrUpdateFileContents(req): the response.  rev numbers
\* the write; every accepted write creates a new commit and a new marker.
RemotePut(rem, rev, req) ==
  IF RemoteAccepts(rem, req) THEN
    [status |-> 200,
     commit |-> [sha |-> Commit(rev), html_url |-> Url(rev), message |-> req.message],
     content |-> [sha |-> Blob(rev)]]
  ELSE
    [status |-> IF req.path = RFile /\ req.branch \in Branches THEN 409 ELSE 422,
     commit |-> [sha |-> NoSha, html_url |-> NoSha, message |-> ""],
     content |-> [sha |-> NoSha]]

\* The repository after the write.
RemoteAfterPut(rem, rev, req) ==
  IF RemoteAccepts(rem, req)
  THEN [rem EXCEPT ![req.branch] = [content |-> req.content, sha |-> Blob(rev)]]
  ELSE rem

\* ------------------------------------------------------ repository client

NoFileContent == [content |-> << >>, sha |-> NoSha, path |-> << >>, encoding |-> ""]
NoCommit == [sha |-> NoSha, url |-> NoSha, message |-> ""]

\* Every error status is reported as an absent file.
ClientCheckoutAllNotFound(rem, path, branch) ==
  LET data == RemoteGet(rem, path, branch)
  IN  IF data.status >= 400 \/ data.isArray \/ data.type # "file" \/ Len(data.content) = 0
      THEN [ok |-> FALSE, err |-> "NotFound", value |-> NoFileContent]
      ELSE [ok |-> TRUE, err |-> "",
            value |-> [content |-> DecodeContent(data.content), sha |-> data.sha,
                       path |-> data.path, encoding |-> "base64"]]

\* GitHubClient.checkout: one getContent call; its error is rethrown as
\* NotFound for status 404 and unchanged otherwise; the response is
\* classified and the content decoded.
ClientCheckout(rem, path, branch) ==
  LET data == RemoteGet(rem, path, branch)
  IN  IF data.status = 404 THEN
        [ok |-> FALSE, err |-> "NotFound", value |-> NoFileContent]
      ELSE IF data.status >= 400 THEN
        [ok |-> FALSE, err |-> data.error, value |-> NoFileContent]
      ELSE IF data.isArray THEN
        [ok |-> FALSE, err |-> "NotAFile", value |-> NoFileContent]
      ELSE IF data.type # "file" THEN
        [ok |-> FALSE, err |-> "NotAFile", value |-> NoFileContent]
      ELSE IF Len(data.content) = 0 THEN
        [ok |-> FALSE, err |-> "EmptyContent", value |-> NoFileContent]
      ELSE
        [ok |-> TRUE, err |-> "",
         value |-> [content |-> DecodeContent(data.content), sha |-> data.sha,
                    path |-> data.path,
                    encoding |-> IF data.encoding # "" THEN data.encoding ELSE "base64"]]

\* The same request without the sha precondition (what createFile sends).
RequestWithoutSha(path, content, message, sha, branch) ==
  [path |-> path, message |-> message, content |-> EncodeContent(content),
   sha |-> NoSha, branch |-> branch]

\* GitHubClient.checkin: the request it submits.
CheckinRequest(path, content, message, sha, branch) ==
  [path |-> path, message |-> message, content |-> EncodeContent(content),
   sha |-> sha, branch |-> branch]

\* The response's status is not looked at: every call reports a commit.
ClientCheckinIgnoresStatus(rem, rev, path, content, message, sha, branch) ==
  LET response == RemotePut(rem, rev, CheckinRequest(path, content, message, sha, branch))
  IN  [ok |-> TRUE, err |-> "",
       value |-> [sha |-> response.commit.sha, url |-> response.commit.html_url,
                  message |-> message]]

\* GitHubClient.checkin: the CommitResult built from the response, or the
\* error octokit raised for a status of 400 and above (not caught here).
ClientCheckin(rem, rev, path, content, message, sha, branch) ==
  LET response == RemotePut(rem, rev, CheckinRequest(path, content, message, sha, branch))
  IN  IF response.status >= 400 THEN
        [ok |-> FALSE,
         err |-> IF response.status = 409 THEN "StalePrecondition" ELSE "Unclassified",
         value |-> NoCommit]
      ELSE
        [ok |-> TRUE, err |-> "",
         value |-> [sha |-> response.commit.sha, url |-> response.commit.html_url,
                    message |-> IF response.commit.message # ""
                                THEN response.commit.message ELSE message]]

\* The repository after GitHubClient.checkin's request.
RemoteAfterCheckin(rem, rev, path, content, message, sha, branch) ==
  RemoteAfterPut(rem, rev, CheckinRequest(path, content, message, sha, branch))

\* ------------------------------------------------------- local file system
\* A sidecar holds a JSON object: here the sequence of its <<key, value>>
\* pairs in insertion order, which JSON.stringify / JSON.parse preserve.

ObjHas(o, k) == \E i \in 1..Len(o) : o[i][1] = k
\* o[k]; a missing key reads as undefined, here the empty tuple.
ObjGet(o, k) == IF ObjHas(o, k) THEN o[CHOOSE i \in 1..Len(o) : o[i][1] = k][2] ELSE << >>
ObjSet(o, k, v) ==
  IF ObjHas(o, k)
  THEN [i \in 1..Len(o) |-> IF o[i][1] = k THEN << k, v >> ELSE o[i]]
  ELSE Append(o, << k, v >>)

\* path.basename(file)
Basename(path) == path[Len(path)]

\* Local content paths an operator uses: the base name of the remote file
\* and one explicit --output path.
LocalPaths == {"a", "o"}
Outputs == {"", "o"}

NoFile == [exists |-> FALSE, content |-> << >>]

\* ----------------------------------------------------------------- state

Procs == {1, 2}

VARIABLES
  token,    \* whether GITHUB_TOKEN is set in the operator's environment
  remote,   \* branch -> [content (base64), sha] of the remote file
  rev,      \* number of the remote's next write
  files,    \* local path -> content file
  metas,    \* local path -> sidecar <path>.meta.json
  clock,    \* wall clock: commands started so far
  edits,    \* operator edits so far
  procs,    \* process -> the command it runs: position, local variables, history
  writes,   \* history: every createOrUpdateFileContents call, in remote order
  lastRet,  \* history: local path -> marker its last successful fetch/commit returned
  lastCmd   \* history: the command or edit that completed last

vars == << token, remote, rev, files, metas, clock, edits, procs, writes, lastRet, lastCmd >>

Absent == [set |-> FALSE, val |-> << >>]
Given(t) == [set |-> TRUE, val |-> t]
NoOpts == [find |-> Absent, replace |-> Absent, append |-> Absent, prepend |-> Absent]
NoCmd == [kind |-> "none", lfile |-> "", ok |-> FALSE, sha |-> NoSha, branch |-> ""]

NewProc ==
  [pc |-> "idle", cmd |-> "none", rfile |-> << >>, lfile |-> "", branchOpt |-> "",
   output |-> "", opts |-> NoOpts, result |-> NoFileContent, content |-> << >>,
   replaced |-> << >>, modified |-> FALSE, meta |-> << >>, branch |-> "",
   commit |-> NoCommit, exit |-> 0, err |-> "", calls |-> 0, lwrites |-> 0,
   lreads |-> 0, listing |-> << >>, prev |-> NoCmd, alone |-> FALSE]

InitialContent == << "a", "b" >>

InitLocal ==
  /\ rev = 1
  /\ files = [l \in LocalPaths |-> NoFile]
  /\ metas = [l \in LocalPaths |-> [exists |-> FALSE, obj |-> << >>]]
  /\ clock = 0
  /\ edits = 0
  /\ procs = [p \in Procs |-> NewProc]
  /\ writes = << >>
  /\ lastRet = [l \in LocalPaths |-> NoSha]
  /\ lastCmd = NoCmd

\* The credential is set; both branches hold the same version of the file.
Init ==
  /\ token = TRUE
  /\ remote = [b \in Branches |-> [content |-> EncodeContent(InitialContent), sha |-> Blob(0)]]
  /\ InitLocal

Idle(p) == procs[p].pc \in {"idle", "done"}

\* The exit status is 0 whatever happened.
FinishZero(pr, code, err) == [pr EXCEPT !.pc = "done", !.exit = 0, !.err = err]

\* The command returned (exit status 0) or called process.exit(1).
Finish(pr, code, err) == [pr EXCEPT !.pc = "done", !.exit = code, !.err = err]

Completed(pr, lfile, ok, sha) ==
  [kind |-> pr.cmd, lfile |-> lfile, ok |-> ok, sha |-> sha, branch |-> pr.branch]

\* getClient: without a credential the process exits with status 1.
GetClientFails == ~token

\* --------------------------------------------------------------- checkout

\* options.output || path.basename(file)
OutputPath(pr) == IF pr.output # "" THEN pr.output ELSE Basename(pr.rfile)

\* The sidecar lacks the marker of the fetch.
CheckoutMetaOmitsSha(result, branch, now) ==
  << << "path", result.path >>, << "sha", NoSha >>,
     << "branch", branch >>, << "checkedOutAt", now >> >>

\* The sidecar checkout writes.
CheckoutMeta(result, branch, now) ==
  << << "path", result.path >>, << "sha", result.sha >>,
     << "branch", branch >>, << "checkedOutAt", now >> >>

\* checkout <file> -b branch -o output: getClient, then client.checkout.
CheckoutStart(p, file, branch, output) ==
  /\ Idle(p)
  /\ clock < MaxCmds
  /\ clock' = clock + 1
  /\ LET pr == [NewProc EXCEPT !.cmd = "checkout", !.rfile = file,
                               !.branchOpt = branch, !.branch = branch,
                               !.output = output,
                               !.alone = \A q \in Procs \ {p} : Idle(q)]
         r == ClientCheckout(remote, file, branch)
     IN  IF GetClientFails THEN
           /\ procs' = [procs EXCEPT ![p] = Finish(pr, 1, "NoCredential")]
           /\ lastCmd' = Completed(pr, OutputPath(pr), FALSE, NoSha)
           /\ UNCHANGED lastRet
         ELSE IF ~r.ok THEN
           /\ procs' = [procs EXCEPT ![p] = Finish([pr EXCEPT !.calls = 1], 1, r.err)]
           /\ lastCmd' = Completed(pr, OutputPath(pr), FALSE, NoSha)
           /\ UNCHANGED lastRet
         ELSE
           /\ procs' = [procs EXCEPT ![p] =
                          [pr EXCEPT !.pc = "co_write", !.calls = 1, !.result = r.value]]
           /\ lastRet' = [lastRet EXCEPT ![OutputPath(pr)] = r.value.sha]
           /\ UNCHANGED lastCmd
  /\ UNCHANGED << token, remote, rev, files, metas, edits, writes >>

\* fs.writeFileSync(outputPath, result.content)
CheckoutWriteFile(p) ==
  /\ procs[p].pc = "co_write"
  /\ files' = [files EXCEPT ![OutputPath(procs[p])] =
                  [exists |-> TRUE, content |-> procs[p].result.content]]
  /\ procs' = [procs EXCEPT ![p].pc = "co_meta", ![p].lwrites = @ + 1]
  /\ UNCHANGED << token, remote, rev, metas, clock, edits, writes, lastRet, lastCmd >>

\* fs.writeFileSync(metaPath, JSON.stringify({path, sha, branch, checkedOutAt}))
CheckoutWriteMeta(p) ==
  /\ procs[p].pc = "co_meta"
  /\ metas' = [metas EXCEPT ![OutputPath(procs[p])] =
                  [exists |-> TRUE,
                   obj |-> CheckoutMeta(procs[p].result, procs[p].branchOpt, clock)]]
  /\ procs' = [procs EXCEPT ![p] = Finish([procs[p] EXCEPT !.lwrites = @ + 1], 0, "")]
  /\ lastCmd' = Completed(procs[p], OutputPath(procs[p]), TRUE, procs[p].result.sha)
  /\ UNCHANGED << token, remote, rev, files, clock, edits, writes, lastRet >>

\* ---------------------------------------------------------------- checkin

BranchFlags == Branches \cup {""}

\* The sidecar's branch is not consulted.
ResolveBranchIgnoresSidecar(flag, meta) == IF flag # "" THEN flag ELSE "main"

\* The sidecar's branch wins over the flag.
ResolveBranchSidecarFirst(flag, meta) ==
  IF ObjHas(meta, "branch") /\ ObjGet(meta, "branch") # "" THEN ObjGet(meta, "branch")
  ELSE IF flag # "" THEN flag
  ELSE "main"

\* options.branch || meta.branch || "main"
ResolveBranch(flag, meta) ==
  IF flag # "" THEN flag
  ELSE IF ObjHas(meta, "branch") /\ ObjGet(meta, "branch") # "" THEN ObjGet(meta, "branch")
  ELSE "main"

\* meta.sha is not updated.
CheckinMetaKeepsSha(meta, result, now) ==
  ObjSet(ObjSet(meta, "lastCommit", result.url), "lastUpdatedAt", now)

\* The sidecar checkin writes back: the object it read, with three fields set.
CheckinMeta(meta, result, now) ==
  ObjSet(ObjSet(ObjSet(meta, "sha", result.sha), "lastCommit", result.url),
         "lastUpdatedAt", now)

\* Where the command goes when client.checkin returns or throws.
AlwaysSave(r) == "ci_save"
AfterCommit(r) == IF r.ok THEN "ci_save" ELSE "done"

\* The remote file a write addresses (a dummy when it addresses none).
RemoteFileAt(rem, path, branch) ==
  IF path = RFile /\ branch \in Branches THEN rem[branch]
  ELSE [content |-> << >>, sha |-> NoSha]

\* History record of one client.checkin call.
WriteEvent(p, pr, path, content, sha, branch, r, rem, remAfter) ==
  [proc |-> p, cmd |-> pr.cmd, path |-> path, content |-> content, sha |-> sha,
   branch |-> branch, ok |-> r.ok, err |-> r.err, value |-> r.value,
   before |-> RemoteFileAt(rem, path, branch),
   after |-> RemoteFileAt(remAfter, path, branch),
   fetched |-> pr.result.content, opts |-> pr.opts]

\* The existence checks are left out.
NeverMissing(f) == ""

\* if (!fs.existsSync(...)) throw new Error(...): the error for a missing
\* content file or sidecar, "" when it exists.
LocalError(f) == IF ~f.exists THEN "LocalMissing" ELSE ""

\* checkin <file> -b flag: getClient, then the local content file is read.
CheckinStart(p, file, flag) ==
  /\ Idle(p)
  /\ clock < MaxCmds
  /\ clock' = clock + 1
  /\ LET pr == [NewProc EXCEPT !.cmd = "checkin", !.lfile = file,
                               !.branchOpt = flag, !.prev = lastCmd]
     IN  IF GetClientFails THEN
           /\ procs' = [procs EXCEPT ![p] = Finish(pr, 1, "NoCredential")]
           /\ lastCmd' = Completed(pr, file, FALSE, NoSha)
         ELSE IF LocalError(files[file]) # "" THEN
           /\ procs' = [procs EXCEPT ![p] = Finish(pr, 1, LocalError(files[file]))]
           /\ lastCmd' = Completed(pr, file, FALSE, NoSha)
         ELSE
           /\ procs' = [procs EXCEPT ![p] =
                          [pr EXCEPT !.pc = "ci_meta", !.content = files[file].content,
                                     !.lreads = @ + 1]]
           /\ UNCHANGED lastCmd
  /\ UNCHANGED << token, remote, rev, files, metas, edits, writes, lastRet >>

\* The sidecar is read and the branch chosen.
CheckinReadMeta(p) ==
  /\ procs[p].pc = "ci_meta"
  /\ LET pr == procs[p]
         m == metas[pr.lfile]
     IN  IF LocalError(m) # "" THEN
           /\ procs' = [procs EXCEPT ![p] = Finish(pr, 1, LocalError(m))]
           /\ lastCmd' = Completed(pr, pr.lfile, FALSE, NoSha)
         ELSE
           /\ procs' = [procs EXCEPT ![p] =
                          [pr EXCEPT !.pc = "ci_commit", !.meta = m.obj, !.lreads = @ + 1,
                                     !.branch = ResolveBranch(pr.branchOpt, m.obj)]]
           /\ UNCHANGED lastCmd
  /\ UNCHANGED << token, remote, rev, files, metas, clock, edits, writes, lastRet >>

\* client.checkin(meta.path, content, options.message, meta.sha, branch)
CheckinCommit(p) ==
  /\ procs[p].pc = "ci_commit"
  /\ LET pr == procs[p]
         path == ObjGet(pr.meta, "path")
         sha == ObjGet(pr.meta, "sha")
         r == ClientCheckin(remote, rev, path, pr.content, DefaultMessage, sha, pr.branch)
         remAfter == RemoteAfterCheckin(remote, rev, path, pr.content, DefaultMessage,
                                        sha, pr.branch)
         pr2 == [pr EXCEPT !.calls = @ + 1, !.commit = r.value]
     IN  /\ remote' = remAfter
         /\ rev' = IF remAfter # remote THEN rev + 1 ELSE rev
         /\ writes' = Append(writes, WriteEvent(p, pr, path, pr.content, sha, pr.branch,
                                                 r, remote, remAfter))
         /\ lastRet' = IF r.ok THEN [lastRet EXCEPT ![pr.lfile] = r.value.sha] ELSE lastRet
         /\ IF AfterCommit(r) = "ci_save" THEN
              /\ procs' = [procs EXCEPT ![p] = [pr2 EXCEPT !.pc = "ci_save"]]
              /\ UNCHANGED lastCmd
            ELSE
              /\ procs' = [procs EXCEPT ![p] = Finish(pr2, 1, r.err)]
              /\ lastCmd' = Completed(pr, pr.lfile, FALSE, NoSha)
  /\ UNCHANGED << token, files, metas, clock, edits >>

\* meta.sha, meta.lastCommit, meta.lastUpdatedAt are set and the sidecar written.
CheckinSave(p) ==
  /\ procs[p].pc = "ci_save"
  /\ LET pr == procs[p]
         m == CheckinMeta(pr.meta, pr.commit, clock)
     IN  /\ metas' = [metas EXCEPT ![pr.lfile] = [exists |-> TRUE, obj |-> m]]
         /\ procs' = [procs EXCEPT ![p] =
                         Finish([pr EXCEPT !.lwrites = @ + 1], 0, "")]
         /\ lastCmd' = Completed(pr, pr.lfile, TRUE, pr.commit.sha)
  /\ UNCHANGED << token, remote, rev, files, clock, edits, writes, lastRet >>

\* ----------------------------------------------------------------- update

\* JavaScript truthiness of an optional text option.
Truthy(o) == o.set /\ Len(o.val) > 0

\* options.find && options.replace !== undefined
ReplaceRequested(o) == Truthy(o.find) /\ o.replace.set

\* Only the first occurrence replaced.
ReplaceFirst(content, find, replace) == Join(SplitFirstOnly(content, find), replace)

\* content.split(options.find).join(options.replace)
ReplaceAll(content, find, replace) == Join(Split(content, find), replace)

\* Lines 152-161: find/replace; modified only if the text changed.
AfterReplace(st, o) ==
  IF ReplaceRequested(o) THEN
    LET newContent == ReplaceAll(st.content, o.find.val, o.replace.val)
    IN  IF newContent # st.content
        THEN [content |-> newContent, modified |-> TRUE]
        ELSE st
  ELSE st

\* Lines 163-167
AfterAppend(st, o) ==
  IF Truthy(o.append)
  THEN [content |-> st.content \o o.append.val, modified |-> TRUE]
  ELSE st

\* Lines 169-173
AfterPrepend(st, o) ==
  IF Truthy(o.prepend)
  THEN [content |-> o.prepend.val \o st.content, modified |-> TRUE]
  ELSE st

\* Find/replace applied after append and prepend instead of before.
ReplaceLast(content, o) ==
  AfterReplace(AfterPrepend(AfterAppend([content |-> content, modified |-> FALSE], o), o), o)

\* Every requested find/replace counts as a modification.
ReplaceAlwaysModifies(content, o) ==
  LET st == AfterPrepend(AfterAppend(AfterReplace(
              [content |-> content, modified |-> FALSE], o), o), o)
  IN  [st EXCEPT !.modified = st.modified \/ ReplaceRequested(o)]

\* Lines 147-173: the transforms in their fixed order.
ApplyTransforms(content, o) ==
  AfterPrepend(AfterAppend(AfterReplace([content |-> content, modified |-> FALSE], o), o), o)

\* update <file> -b branch [--find --replace --append --prepend]: getClient,
\* client.checkout, the transforms, and the decision to skip the checkin.
UpdateStart(p, file, branch, o) ==
  /\ Idle(p)
  /\ clock < MaxCmds
  /\ clock' = clock + 1
  /\ LET pr == [NewProc EXCEPT !.cmd = "update", !.rfile = file, !.branchOpt = branch,
                               !.branch = branch, !.opts = o]
         r == ClientCheckout(remote, file, branch)
         st == ApplyTransforms(r.value.content, o)
         pr2 == [pr EXCEPT !.calls = 1, !.result = r.value, !.content = st.content,
                           !.modified = st.modified,
                           !.replaced = AfterReplace([content |-> r.value.content,
                                                      modified |-> FALSE], o).content]
     IN  IF GetClientFails THEN
           /\ procs' = [procs EXCEPT ![p] = Finish(pr, 1, "NoCredential")]
           /\ lastCmd' = Completed(pr, "", FALSE, NoSha)
         ELSE IF ~r.ok THEN
           /\ procs' = [procs EXCEPT ![p] = Finish([pr EXCEPT !.calls = 1], 1, r.err)]
           /\ lastCmd' = Completed(pr, "", FALSE, NoSha)
         ELSE IF ~st.modified THEN
           /\ procs' = [procs EXCEPT ![p] = Finish(pr2, 0, "")]
           /\ lastCmd' = Completed(pr, "", TRUE, NoSha)
         ELSE
           /\ procs' = [procs EXCEPT ![p] = [pr2 EXCEPT !.pc = "up_commit"]]
           /\ UNCHANGED lastCmd
  /\ UNCHANGED << token, remote, rev, files, metas, edits, writes, lastRet >>

\* The committed content is also saved to the local content file.
UpdateCommitPersists(p) ==
  /\ procs[p].pc = "up_commit"
  /\ LET pr == procs[p]
         r == ClientCheckin(remote, rev, pr.rfile, pr.content, DefaultMessage,
                            pr.result.sha, pr.branchOpt)
         remAfter == RemoteAfterCheckin(remote, rev, pr.rfile, pr.content, DefaultMessage,
                                        pr.result.sha, pr.branchOpt)
         pr2 == [pr EXCEPT !.calls = @ + 1, !.commit = r.value]
     IN  /\ remote' = remAfter
         /\ rev' = IF remAfter # remote THEN rev + 1 ELSE rev
         /\ writes' = Append(writes, WriteEvent(p, pr, pr.rfile, pr.content, pr.result.sha,
                                                 pr.branchOpt, r, remote, remAfter))
         /\ procs' = [procs EXCEPT ![p] =
                         IF r.ok THEN Finish(pr2, 0, "") ELSE Finish(pr2, 1, r.err)]
         /\ files' = [files EXCEPT ![Basename(pr.rfile)] =
                         [exists |-> TRUE, content |-> pr.content]]
         /\ lastCmd' = Completed(pr, "", r.ok, r.value.sha)
  /\ UNCHANGED << token, metas, clock, edits, lastRet >>

\* client.checkin(file, content, options.message, result.sha, options.branch)
UpdateCommit(p) ==
  /\ procs[p].pc = "up_commit"
  /\ LET pr == procs[p]
         r == ClientCheckin(remote, rev, pr.rfile, pr.content, DefaultMessage,
                            pr.result.sha, pr.branchOpt)
         remAfter == RemoteAfterCheckin(remote, rev, pr.rfile, pr.content, DefaultMessage,
                                        pr.result.sha, pr.branchOpt)
         pr2 == [pr EXCEPT !.calls = @ + 1, !.commit = r.value]
     IN  /\ remote' = remAfter
         /\ rev' = IF remAfter # remote THEN rev + 1 ELSE rev
         /\ writes' = Append(writes, WriteEvent(p, pr, pr.rfile, pr.content, pr.result.sha,
                                                 pr.branchOpt, r, remote, remAfter))
         /\ procs' = [procs EXCEPT ![p] =
                         IF r.ok THEN Finish(pr2, 0, "") ELSE Finish(pr2, 1, r.err)]
         /\ lastCmd' = Completed(pr, "", r.ok, r.value.sha)
  /\ UNCHANGED << token, files, metas, clock, edits, lastRet >>

\* ------------------------------------------------------------ list, info

\* The paths of the entries, in order.
RECURSIVE Paths(_)
Paths(items) ==
  IF items = << >> THEN << >> ELSE << Head(items).path >> \o Paths(Tail(items))

\* No entry is filtered out.
ClientListFilesNoFilter(rem, path, branch) ==
  LET data == RemoteGet(rem, path, branch)
  IN  IF data.status >= 400 THEN [ok |-> FALSE, err |-> data.error, value |-> << >>]
      ELSE IF ~data.isArray THEN [ok |-> TRUE, err |-> "", value |-> << data.path >>]
      ELSE [ok |-> TRUE, err |-> "", value |-> Paths(data.entries)]

\* GitHubClient.listFiles: one getContent call, its error rethrown as it is.
ClientListFiles(rem, path, branch) ==
  LET data == RemoteGet(rem, path, branch)
  IN  IF data.status >= 400 THEN [ok |-> FALSE, err |-> data.error, value |-> << >>]
      ELSE IF ~data.isArray THEN [ok |-> TRUE, err |-> "", value |-> << data.path >>]
      ELSE [ok |-> TRUE, err |-> "",
            value |-> Paths(SelectSeq(data.entries, LAMBDA item : item.type = "file"))]

\* octokit.repos.get: the repository record, or an error status.
RepoStatuses == {200, 403}
RemoteRepoGet(status) ==
  IF status = 200 THEN [status |-> 200, error |-> "", default_branch |-> "main"]
  ELSE [status |-> status, error |-> "Http403", default_branch |-> ""]

\* GitHubClient.getRepoInfo
ClientGetRepoInfo(status) ==
  LET data == RemoteRepoGet(status)
  IN  IF data.status >= 400 THEN [ok |-> FALSE, err |-> data.error, value |-> ""]
      ELSE [ok |-> TRUE, err |-> "", value |-> data.default_branch]

\* list [directory] -b branch: getClient, client.listFiles, the paths printed.
ListStart(p, dir, branch) ==
  /\ Idle(p)
  /\ clock < MaxCmds
  /\ clock' = clock + 1
  /\ LET pr == [NewProc EXCEPT !.cmd = "list", !.rfile = dir, !.branchOpt = branch,
                               !.branch = branch]
         r == ClientListFiles(remote, dir, branch)
     IN  IF GetClientFails THEN
           /\ procs' = [procs EXCEPT ![p] = Finish(pr, 1, "NoCredential")]
           /\ lastCmd' = Completed(pr, "", FALSE, NoSha)
         ELSE IF ~r.ok THEN
           /\ procs' = [procs EXCEPT ![p] = Finish([pr EXCEPT !.calls = 1], 1, r.err)]
           /\ lastCmd' = Completed(pr, "", FALSE, NoSha)
         ELSE
           /\ procs' = [procs EXCEPT ![p] =
                          Finish([pr EXCEPT !.calls = 1, !.listing = r.value], 0, "")]
           /\ lastCmd' = Completed(pr, "", TRUE, NoSha)
  /\ UNCHANGED << token, remote, rev, files, metas, edits, writes, lastRet >>

\* info: getClient, client.getRepoInfo, the record printed.
InfoStart(p, status) ==
  /\ Idle(p)
  /\ clock < MaxCmds
  /\ clock' = clock + 1
  /\ LET pr == [NewProc EXCEPT !.cmd = "info"]
         r == ClientGetRepoInfo(status)
     IN  IF GetClientFails THEN
           /\ procs' = [procs EXCEPT ![p] = Finish(pr, 1, "NoCredential")]
           /\ lastCmd' = Completed(pr, "", FALSE, NoSha)
         ELSE IF ~r.ok THEN
           /\ procs' = [procs EXCEPT ![p] = Finish([pr EXCEPT !.calls = 1], 1, r.err)]
           /\ lastCmd' = Completed(pr, "", FALSE, NoSha)
         ELSE
           /\ procs' = [procs EXCEPT ![p] =
                          Finish([pr EXCEPT !.calls = 1, !.branch = r.value], 0, "")]
           /\ lastCmd' = Completed(pr, "", TRUE, NoSha)
  /\ UNCHANGED << token, remote, rev, files, metas, edits, writes, lastRet >>

\* ------------------------------------------------------------ environment

EditContents == {<< "b" >>, << >>}

\* The operator edits a checked-out content file between commands.
OperatorEdit(l, c) ==
  /\ files[l].exists
  /\ edits < MaxEdits
  /\ c # files[l].content
  /\ files' = [files EXCEPT ![l].content = c]
  /\ edits' = edits + 1
  /\ lastCmd' = [NoCmd EXCEPT !.kind = "edit", !.lfile = l]
  /\ UNCHANGED << token, remote, rev, metas, clock, procs, writes, lastRet >>

\* ---------------------------------------------------------- specifications

FindAB == [NoOpts EXCEPT !.find = Given(<< "a" >>), !.replace = Given(<< "b" >>)]
FindT == [NoOpts EXCEPT !.find = Given(<< "t" >>), !.replace = Given(<< "b" >>)]
AppendA == [NoOpts EXCEPT !.append = Given(<< "a" >>)]
CutAppend ==
  [NoOpts EXCEPT !.find = Given(<< "a" >>), !.replace = Given(<< >>),
                 !.append = Given(<< "a" >>), !.prepend = Given(<< "b" >>)]

\* Command lines of the interleaved runs: << file, branch, output >>,
\* << file, branch flag >>, << file, branch, options >>.
CheckoutArgs == {<< RFile, "main", "" >>}
CheckinArgs == {<< "a", "" >>}
UpdateArgs ==
  {<< RFile, "main", AppendA >>, << RFile, "main", FindAB >>, << RDir, "main", AppendA >>}

\* Command lines of the one-at-a-time runs.
SeqCheckoutArgs ==
  {<< RFile, "main", "" >>, << RFile, "dev", "" >>, << RFile, "main", "o" >>,
   << RDir, "main", "" >>, << RNone, "dev", "" >>}
SeqCheckinArgs == {<< "a", "" >>, << "a", "dev" >>, << "a", "main" >>, << "o", "" >>}
SeqUpdateArgs ==
  {<< RFile, "main", NoOpts >>, << RFile, "main", FindAB >>, << RFile, "main", FindT >>,
   << RFile, "dev", AppendA >>, << RFile, "main", CutAppend >>, << RDir, "main", AppendA >>}

CommandStep(p) ==
  \/ CheckoutWriteFile(p)
  \/ CheckoutWriteMeta(p)
  \/ CheckinReadMeta(p)
  \/ CheckinCommit(p)
  \/ CheckinSave(p)
  \/ UpdateCommit(p)

\* Processes interleave freely.
Next ==
  \/ \E p \in Procs, a \in CheckoutArgs : CheckoutStart(p, a[1], a[2], a[3])
  \/ \E p \in Procs, a \in CheckinArgs : CheckinStart(p, a[1], a[2])
  \/ \E p \in Procs, a \in UpdateArgs : UpdateStart(p, a[1], a[2], a[3])
  \/ \E p \in Procs : CommandStep(p)
  \/ \E l \in LocalPaths, c \in EditContents : OperatorEdit(l, c)

Spec == Init /\ [][Next]_vars

\* One command at a time: a command starts, and the operator edits, only
\* when no command is running.  Every command is a process of its own; the
\* model reuses one slot for them.
SeqProc == CHOOSE p \in Procs : \A q \in Procs : p <= q
Quiet == \A p \in Procs : Idle(p)

NextSeq ==
  \/ \E a \in SeqCheckoutArgs : CheckoutStart(SeqProc, a[1], a[2], a[3])
  \/ \E a \in SeqCheckinArgs : CheckinStart(SeqProc, a[1], a[2])
  \/ \E a \in SeqUpdateArgs : UpdateStart(SeqProc, a[1], a[2], a[3])
  \/ CommandStep(SeqProc)
  \/ Quiet /\ \E l \in LocalPaths, c \in EditContents : OperatorEdit(l, c)

SpecSeq == Init /\ [][NextSeq]_vars

\* One update command applied to a range of contents and option values.
TransformInputs ==
  {<< "c", "a", "t" >>, << "h", "i" >>, << "a", "a", "a" >>, << "a", "b" >>, << "b" >>}
FindValues == {Absent, Given(<< >>), Given(<< "a" >>), Given(<< "h" >>),
               Given(<< "a", "a" >>), Given(<< "t" >>)}
ReplaceValues == {Absent, Given(<< >>), Given(<< "b" >>), Given(<< "H" >>), Given(<< "a" >>)}
AppendValues == {Absent, Given(<< >>), Given(<< "!" >>), Given(<< "a" >>)}
PrependValues == {Absent, Given(<< >>), Given(<< ">", ">", " " >>), Given(<< "b" >>)}
TransformOptions ==
  [find : FindValues, replace : ReplaceValues, append : AppendValues,
   prepend : PrependValues]

InitT ==
  /\ token = TRUE
  /\ \E c \in TransformInputs :
       remote = [b \in Branches |-> [content |-> EncodeContent(c), sha |-> Blob(0)]]
  /\ InitLocal

NextT ==
  \/ clock = 0 /\ \E o \in TransformOptions : UpdateStart(SeqProc, RFile, "main", o)
  \/ UpdateCommit(SeqProc)

SpecT == InitT /\ [][NextT]_vars

\* Every command of the tool, one at a time, with or without the credential
\* and over every kind of remote path.
EnvCheckoutArgs ==
  {<< RFile, "main", "" >>, << RDir, "main", "" >>, << RNone, "main", "" >>,
   << RLink, "main", "" >>, << RDenied, "main", "" >>, << RFile, "gone", "" >>}
EnvCheckinArgs == {<< "a", "" >>, << "o", "" >>}
EnvUpdateArgs ==
  {<< RFile, "main", AppendA >>, << RFile, "main", NoOpts >>, << RLink, "main", AppendA >>,
   << RDenied, "main", AppendA >>}
EnvListArgs ==
  {<< RDir, "main" >>, << RFile, "main" >>, << RSub, "dev" >>, << RNone, "main" >>,
   << RDenied, "main" >>, << RLink, "main" >>}

InitEnv ==
  /\ token \in BOOLEAN
  /\ remote = [b \in Branches |-> [content |-> EncodeContent(InitialContent), sha |-> Blob(0)]]
  /\ InitLocal

NextEnv ==
  \/ \E a \in EnvCheckoutArgs : CheckoutStart(SeqProc, a[1], a[2], a[3])
  \/ \E a \in EnvCheckinArgs : CheckinStart(SeqProc, a[1], a[2])
  \/ \E a \in EnvUpdateArgs : UpdateStart(SeqProc, a[1], a[2], a[3])
  \/ \E a \in EnvListArgs : ListStart(SeqProc, a[1], a[2])
  \/ \E st \in RepoStatuses : InfoStart(SeqProc, st)
  \/ CommandStep(SeqProc)
  \/ Quiet /\ \E l \in LocalPaths, c \in EditContents : OperatorEdit(l, c)

SpecEnv == InitEnv /\ [][NextEnv]_vars

\* ------------------------------------------------------------------ claims

Sidecar(l) == metas[l].obj
Done(p, cmd) == procs[p].pc = "done" /\ procs[p].cmd = cmd

\* C1: client checkin submits the caller's marker as the write precondition:
\* whenever it differs from the remote's current marker for the path on the
\* branch, the call fails with a conflict error and the remote content and
\* marker of the path are unchanged.
C1_StaleMarkerRejected ==
  \A i \in 1..Len(writes) :
    writes[i].sha # writes[i].before.sha =>
      /\ ~writes[i].ok
      /\ writes[i].err = "StalePrecondition"
      /\ writes[i].after = writes[i].before

\* A checkin was called with a marker the remote file no longer had.
C1_Witness ==
  \E i \in 1..Len(writes) :
    /\ writes[i].sha # writes[i].before.sha
    /\ writes[i].before.sha # NoSha
    /\ ~writes[i].ok

SameTarget(e, f) == e.path = f.path /\ e.branch = f.branch /\ e.sha = f.sha

\* C2: of the command invocations (checkin or update) that hold the same
\* marker for the same remote path and branch, at most one write succeeds;
\* every other fails with a conflict and leaves the winner's content.
C2_OneWinnerPerMarker ==
  \A i, j \in 1..Len(writes) :
    (i < j /\ SameTarget(writes[i], writes[j])) =>
      /\ ~(writes[i].ok /\ writes[j].ok)
      /\ writes[i].ok =>
           /\ writes[j].err = "StalePrecondition"
           /\ writes[j].after = writes[j].before

\* Two processes wrote with the same marker; the first won, the second lost.
C2_Witness ==
  \E i, j \in 1..Len(writes) :
    /\ i < j
    /\ SameTarget(writes[i], writes[j])
    /\ writes[i].proc # writes[j].proc
    /\ writes[i].ok
    /\ ~writes[j].ok

\* The step in which process p's client.checkin call returns or throws.
CheckinReturns(p) ==
  /\ procs[p].pc = "ci_commit"
  /\ procs'[p].pc # "ci_commit"
  /\ Len(writes') = Len(writes) + 1

\* C3: when the checkin command's remote write is rejected because the
\* sidecar's marker is stale, the command fails (StalePrecondition, exit
\* status 1) and the sidecar stays as it was: sha, lastCommit and
\* lastUpdatedAt are not advanced.
C3_RejectedCheckinKeepsSidecar ==
  /\ [][\A p \in Procs :
          (CheckinReturns(p) /\ ~writes'[Len(writes')].ok) =>
            /\ procs'[p].pc = "done"
            /\ procs'[p].exit = 1
            /\ procs'[p].err = "StalePrecondition"
            /\ metas' = metas
            /\ files' = files]_vars
  /\ [](\A p \in Procs :
          (Done(p, "checkin") /\ procs[p].err = "StalePrecondition") =>
            procs[p].lwrites = 0)

\* A checkin command ended with StalePrecondition, its sidecar in place.
C3_Witness ==
  \E p \in Procs :
    /\ Done(p, "checkin")
    /\ procs[p].err = "StalePrecondition"
    /\ procs[p].exit = 1
    /\ metas[procs[p].lfile].exists
    /\ ObjGet(Sidecar(procs[p].lfile), "sha") = ObjGet(procs[p].meta, "sha")

\* The checkin that has just ended followed a successful checkout of the
\* same local file, with no command and no edit between them.
RoundTrip(p) ==
  /\ Done(p, "checkin")
  /\ procs[p].prev.kind = "checkout"
  /\ procs[p].prev.ok
  /\ procs[p].prev.lfile = procs[p].lfile

RoundTripSucceeded(p) ==
  /\ procs[p].exit = 0
  /\ ObjGet(Sidecar(procs[p].lfile), "sha") # procs[p].prev.sha
  /\ ObjGet(Sidecar(procs[p].lfile), "sha") = procs[p].commit.sha

\* C4 as stated: a checkout followed immediately by a checkin of the
\* unchanged file succeeds and records a marker other than the checkout's.
C4_RoundTripAlwaysSucceeds ==
  \A p \in Procs : RoundTrip(p) => RoundTripSucceeded(p)

\* C4, amended: the same when the checkin commits to the branch that was
\* checked out (no --branch flag, or the flag names that branch).
C4_RoundTripSameBranch ==
  \A p \in Procs :
    (RoundTrip(p) /\ procs[p].branchOpt \in {"", procs[p].prev.branch}) =>
      RoundTripSucceeded(p)

\* A round trip to the checked-out branch has ended.
C4_Witness ==
  \E p \in Procs :
    /\ RoundTrip(p)
    /\ procs[p].branchOpt \in {"", procs[p].prev.branch}
    /\ procs[p].exit = 0
    /\ procs[p].content = DecodeContent(remote[procs[p].branch].content)

\* C5: after any sequence of completed checkout and checkin commands run one
\* at a time, the sha in a path's sidecar is the marker returned by the most
\* recent successful checkout fetch or checkin commit for that path; failed
\* commands do not change it.
C5_SidecarHoldsLastReturnedMarker ==
  Quiet =>
    \A l \in LocalPaths :
      /\ metas[l].exists => ObjGet(Sidecar(l), "sha") = lastRet[l]
      /\ ~metas[l].exists => lastRet[l] = NoSha

\* A checkin failed after an earlier checkin of the same file had succeeded.
C5_Witness ==
  /\ Quiet
  /\ lastCmd.kind = "checkin"
  /\ ~lastCmd.ok
  /\ metas[lastCmd.lfile].exists
  /\ ObjHas(Sidecar(lastCmd.lfile), "lastCommit")
  /\ \E p \in Procs : Done(p, "checkin") /\ procs[p].calls = 1

\* The step in which process p starts a checkin command.
CheckinStarts(p) == Idle(p) /\ procs'[p].cmd = "checkin" /\ procs'[p] # procs[p]

FailsLocalMissing(p) ==
  /\ procs'[p].pc = "done"
  /\ procs'[p].exit = 1
  /\ procs'[p].err = "LocalMissing"
  /\ procs'[p].calls = 0
  /\ procs'[p].lwrites = 0
  /\ UNCHANGED << remote, rev, writes, files, metas >>

\* C6: the checkin command, when the local content file or its sidecar does
\* not exist, fails with LocalMissing and exit status 1, issues no remote
\* call and creates or changes no local file.
C6_CheckinNeedsFileAndSidecar ==
  [][\A p \in Procs :
       /\ (CheckinStarts(p) /\ ~files[procs'[p].lfile].exists) => FailsLocalMissing(p)
       /\ (procs[p].pc = "ci_meta" /\ procs'[p] # procs[p]
             /\ ~metas[procs[p].lfile].exists) => FailsLocalMissing(p)]_vars

\* A checkin found its content file but no sidecar, and failed.
C6_Witness ==
  \E p \in Procs :
    /\ Done(p, "checkin")
    /\ procs[p].err = "LocalMissing"
    /\ procs[p].calls = 0
    /\ files[procs[p].lfile].exists
    /\ procs[p].content # << >>

RECURSIVE ScanReplace(_, _, _)
\* Reference for the find/replace: scanning s left to right, every occurrence
\* of find (non-empty) found is replaced and the scan resumes after it.
ScanReplace(s, find, rep) ==
  IF Len(s) = 0 THEN << >>
  ELSE IF OccursAt(s, find, 1) THEN rep \o ScanReplace(Drop(s, Len(find)), find, rep)
  ELSE << s[1] >> \o ScanReplace(Tail(s), find, rep)

\* A transform that was not requested is the identity.
Replaced(s, o) ==
  IF o.find.set /\ o.find.val # << >> /\ o.replace.set
  THEN ScanReplace(s, o.find.val, o.replace.val)
  ELSE s
Suffix(o) == IF o.append.set THEN o.append.val ELSE << >>
Prefix(o) == IF o.prepend.set THEN o.prepend.val ELSE << >>

ExampleOptions ==
  [find |-> Given(<< "h" >>), replace |-> Given(<< "H" >>),
   append |-> Given(<< "!" >>), prepend |-> Given(<< ">", ">", " " >>)]

\* C7: update applies find/replace, then append, then prepend, and checks in
\* exactly prepend + replaceAll(fetched, find, replace) + append; on "hi" with
\* find "h", replace "H", append "!", prepend ">> " it commits ">> Hi!".
C7_UpdateCommitsTransformedContent ==
  \A i \in 1..Len(writes) :
    LET e == writes[i]
    IN  e.cmd = "update" =>
          /\ e.content = Prefix(e.opts) \o Replaced(e.fetched, e.opts) \o Suffix(e.opts)
          /\ e.ok => DecodeContent(e.after.content) = e.content
          /\ (e.fetched = << "h", "i" >> /\ e.opts = ExampleOptions) =>
               e.content = << ">", ">", " ", "H", "i", "!" >>

\* The example was committed.
C7_Witness ==
  \E i \in 1..Len(writes) :
    /\ writes[i].cmd = "update"
    /\ writes[i].ok
    /\ writes[i].fetched = << "h", "i" >>
    /\ writes[i].opts = ExampleOptions
    /\ DecodeContent(remote["main"].content) = << ">", ">", " ", "H", "i", "!" >>

\* The update command of process p fetched the file.
Fetched(p) == procs[p].cmd = "update" /\ procs[p].calls >= 1 /\ procs[p].result # NoFileContent

\* No requested transform changes the fetched content.
NothingToDo(p) ==
  /\ Suffix(procs[p].opts) = << >>
  /\ Prefix(procs[p].opts) = << >>
  /\ Replaced(procs[p].result.content, procs[p].opts) = procs[p].result.content

\* C8: if no requested transform changed the content (no transform flag, or
\* a find/replace whose target text is absent), update performs no checkin:
\* the remote file is unchanged and the command ends with exit status 0.
C8_NoChangeNoCheckin ==
  \A p \in Procs :
    (Fetched(p) /\ NothingToDo(p)) =>
      /\ procs[p].pc = "done"
      /\ procs[p].exit = 0
      /\ procs[p].err = ""
      /\ procs[p].calls = 1
      /\ writes = << >>
      /\ \A b \in Branches :
           /\ remote[b].sha = Blob(0)
           /\ DecodeContent(remote[b].content) = procs[p].result.content

\* An update whose find text does not occur in the file has ended.
C8_Witness ==
  \E p \in Procs :
    /\ Fetched(p)
    /\ procs[p].pc = "done"
    /\ procs[p].opts.find = Given(<< "t" >>)
    /\ procs[p].opts.replace = Given(<< "b" >>)
    /\ procs[p].result.content = << "a", "b" >>
    /\ NothingToDo(p)

\* TRUE iff find occurs somewhere in s.
Occurs(s, find) == \E i \in 1..Len(s) : OccursAt(s, find, i)

\* C9: update's find/replace replaces every non-overlapping occurrence of
\* the find text, scanning left to right; find "a", replace "b" turns "cat"
\* into "cbt", and a content without the find text is returned unchanged.
C9_FindReplaceAllOccurrences ==
  \A p \in Procs :
    (Fetched(p) /\ ReplaceRequested(procs[p].opts)) =>
      LET c == procs[p].result.content
          f == procs[p].opts.find.val
          r == procs[p].opts.replace.val
      IN  /\ procs[p].replaced = ScanReplace(c, f, r)
          /\ ~Occurs(c, f) => procs[p].replaced = c
          /\ (c = << "c", "a", "t" >> /\ f = << "a" >> /\ r = << "b" >>) =>
               procs[p].replaced = << "c", "b", "t" >>
          /\ (c = << "a", "a", "a" >> /\ f = << "a", "a" >> /\ r = << "b" >>) =>
               procs[p].replaced = << "b", "a" >>

\* "cat" became "cbt" and was committed.
C9_Witness ==
  \E p \in Procs :
    /\ Done(p, "update")
    /\ procs[p].result.content = << "c", "a", "t" >>
    /\ procs[p].opts = [NoOpts EXCEPT !.find = Given(<< "a" >>), !.replace = Given(<< "b" >>)]
    /\ procs[p].replaced = << "c", "b", "t" >>
    /\ DecodeContent(remote["main"].content) = << "c", "b", "t" >>

\* The checkin command of process p has called client.checkin and ended.
Committed(p) == Done(p, "checkin") /\ procs[p].calls = 1 /\ Len(writes) > 0

\* C10: checkin commits to the --branch flag, else the sidecar's branch,
\* else "main"; the target path and the precondition are the sidecar's path
\* and sha; on success sha, lastCommit and lastUpdatedAt of the sidecar are
\* overwritten with the commit's result.
C10_CheckinUsesSidecarAndFlag ==
  \A p \in Procs :
    Committed(p) =>
      LET pr == procs[p]
          e == writes[Len(writes)]
          side == Sidecar(pr.lfile)
          recorded == ObjHas(pr.meta, "branch") /\ ObjGet(pr.meta, "branch") # ""
      IN  /\ e.proc = p
          /\ pr.branchOpt # "" => e.branch = pr.branchOpt
          /\ (pr.branchOpt = "" /\ recorded) => e.branch = ObjGet(pr.meta, "branch")
          /\ (pr.branchOpt = "" /\ ~recorded) => e.branch = "main"
          /\ e.path = ObjGet(pr.meta, "path")
          /\ e.sha = ObjGet(pr.meta, "sha")
          /\ e.content = pr.content
          /\ e.ok =>
               /\ pr.exit = 0
               /\ ObjGet(side, "sha") = e.value.sha
               /\ ObjGet(side, "lastCommit") = e.value.url
               /\ ObjGet(side, "lastUpdatedAt") = clock
               /\ \A k \in {"path", "branch", "checkedOutAt"} :
                    ObjGet(side, k) = ObjGet(pr.meta, k)
          /\ ~e.ok => (pr.exit = 1 /\ side = pr.meta)

\* A checkin with a --branch flag other than the sidecar's branch succeeded.
C10_Witness ==
  \E p \in Procs :
    /\ Committed(p)
    /\ procs[p].exit = 0
    /\ procs[p].branchOpt # ""
    /\ procs[p].branchOpt # ObjGet(procs[p].meta, "branch")
    /\ ObjGet(Sidecar(procs[p].lfile), "sha") = procs[p].commit.sha

\* Process p starts a command in this step (one command at a time).
Starts(p) ==
  /\ Idle(p)
  /\ clock' = clock + 1
  /\ procs'[p].cmd # "none"
  /\ \A q \in Procs \ {p} : procs'[q] = procs[q] /\ Idle(q)

\* Process p makes its client.checkout call in this step.
Fetches(p) ==
  /\ Starts(p)
  /\ procs'[p].cmd \in {"checkout", "update"}
  /\ procs'[p].calls >= 1

FetchFailed(p, err) ==
  /\ procs'[p].pc = "done"
  /\ procs'[p].exit = 1
  /\ procs'[p].err = err
  /\ procs'[p].result = NoFileContent

\* C11: client checkout never modifies the remote; it fails with NotAFile
\* for a directory or a non-file object, with NotFound for status 404, with
\* EmptyContent for a file without content, with the remote's own error for
\* any other error status, after a single call; otherwise it returns the
\* decoded content with the path and the remote's current marker.
C11_CheckoutClassifiesOutcome ==
  [][\A p \in Procs :
       Fetches(p) =>
         LET data == RemoteGet(remote, procs'[p].rfile, procs'[p].branchOpt)
         IN  /\ remote' = remote /\ rev' = rev /\ writes' = writes
             /\ procs'[p].calls = 1
             /\ data.status = 404 => FetchFailed(p, "NotFound")
             /\ data.status >= 400 /\ data.status # 404 =>
                  FetchFailed(p, data.error) /\ data.error \notin {"", "NotFound"}
             /\ data.status = 200 /\ (data.isArray \/ data.type # "file") =>
                  FetchFailed(p, "NotAFile")
             /\ data.status = 200 /\ ~data.isArray /\ data.type = "file"
                  /\ data.content = << >> => FetchFailed(p, "EmptyContent")
             /\ data.status = 200 /\ ~data.isArray /\ data.type = "file"
                  /\ data.content # << >> =>
                  /\ procs'[p].err = ""
                  /\ EncodeContent(procs'[p].result.content) = data.content
                  /\ procs'[p].result.sha = remote[procs'[p].branchOpt].sha
                  /\ procs'[p].result.path = procs'[p].rfile]_vars

\* A checkout of a file that was committed empty failed with EmptyContent.
C11_Witness ==
  \E p \in Procs :
    /\ Done(p, "checkout")
    /\ procs[p].err = "EmptyContent"
    /\ procs[p].calls = 1
    /\ \E i \in 1..Len(writes) : writes[i].ok /\ writes[i].content = << >>

Commands == {"checkout", "checkin", "update", "list", "info"}

\* A step of the command process p starts raises an error in this step:
\* the credential is missing, the remote refuses the first call, or the
\* local content file is missing.
StartRaises(p) ==
  /\ Starts(p)
  /\ LET pr == procs'[p]
     IN  \/ ~token
         \/ pr.cmd \in {"checkout", "update", "list"}
              /\ RemoteGet(remote, pr.rfile, pr.branchOpt).status >= 400
         \/ pr.cmd \in {"checkout", "update"}
              /\ LET data == RemoteGet(remote, pr.rfile, pr.branchOpt)
                 IN  data.isArray \/ data.type # "file" \/ data.content = << >>
         \/ pr.cmd = "checkin" /\ ~files[pr.lfile].exists
         \/ pr.cmd = "info" /\ pr.calls = 1 /\ pr.branch = ""

\* A later step of the command process p runs raises an error in this
\* step: the sidecar is missing, or the remote refuses the write.
StepRaises(p) ==
  \/ procs[p].pc = "ci_meta" /\ procs'[p] # procs[p] /\ ~metas[procs[p].lfile].exists
  \/ /\ procs[p].pc \in {"ci_commit", "up_commit"}
     /\ Len(writes') = Len(writes) + 1
     /\ writes'[Len(writes')].proc = p
     /\ ~writes'[Len(writes')].ok

\* C12: a command ends with status 1 in the step in which one of its steps
\* raises an error and takes no further step; it ends with status 0 when
\* none did; a command that has not ended can take its next step; without
\* the credential it ends with status 1 before any remote call and any
\* local read or write.
C12_ExitStatusFollowsErrors ==
  /\ [](\A p \in Procs :
          /\ procs[p].pc = "done" =>
               /\ procs[p].cmd \in Commands
               /\ procs[p].exit \in {0, 1}
               /\ procs[p].exit = 0 <=> procs[p].err = ""
          /\ procs[p].pc \notin {"idle", "done"} =>
               procs[p].err = "" /\ ENABLED CommandStep(p))
  /\ [][\A p \in Procs :
          /\ StartRaises(p) \/ StepRaises(p) =>
               procs'[p].pc = "done" /\ procs'[p].exit = 1
          /\ procs'[p] # procs[p] /\ procs'[p].pc = "done"
               /\ ~(StartRaises(p) \/ StepRaises(p)) => procs'[p].exit = 0
          /\ Starts(p) /\ ~token =>
               /\ procs'[p].calls = 0 /\ procs'[p].lwrites = 0 /\ procs'[p].lreads = 0
               /\ UNCHANGED << remote, rev, writes, files, metas >>]_vars

\* Without the credential a list command ended with status 1, no call made.
C12_Witness ==
  \E p \in Procs :
    /\ ~token
    /\ Done(p, "list")
    /\ procs[p].exit = 1
    /\ procs[p].calls = 0

\* Process p takes a step of an update command: its start (the fetch and
\* the transforms) or its commit.
UpdateSteps(p) ==
  /\ procs'[p].cmd = "update"
  /\ \/ procs[p].pc = "up_commit" /\ procs'[p] # procs[p]
     \/ /\ Idle(p)
        /\ clock' = clock + 1
        /\ \A q \in Procs \ {p} : procs'[q] = procs[q]

\* C13: no step of an update command, successful or failing, creates or
\* changes a local content file or sidecar, and the command reads and
\* writes no local file at all.
C13_UpdateLeavesLocalFilesAlone ==
  /\ [](\A p \in Procs :
          procs[p].cmd = "update" => procs[p].lwrites = 0 /\ procs[p].lreads = 0)
  /\ [][\A p \in Procs : UpdateSteps(p) => files' = files /\ metas' = metas]_vars

\* An update committed while a local copy of the same remote file, with
\* its sidecar, was checked out; and an update whose commit was refused.
C13_Witness ==
  /\ \E i \in 1..Len(writes) : writes[i].cmd = "update" /\ writes[i].ok
  /\ \E i \in 1..Len(writes) : writes[i].cmd = "update" /\ ~writes[i].ok
  /\ \E p \in Procs : Done(p, "update")
  /\ files["a"].exists /\ metas["a"].exists

\* The positions of the entries of type file in a directory response.
FilePositions(entries) == {i \in 1..Len(entries) : entries[i].type = "file"}

\* C14: client listFiles returns, for a path that is a single object, the
\* one-entry list of that object's path, and for a directory the paths of
\* its entries of type file, each once and in the order of the response,
\* and no path of a sub-directory or of any other entry.
C14_ListFilesReturnsFilePaths ==
  [][\A p \in Procs :
       Starts(p) /\ procs'[p].cmd = "list" /\ procs'[p].exit = 0 =>
         LET data == RemoteGet(remote, procs'[p].rfile, procs'[p].branchOpt)
             files_ == procs'[p].listing
             pos == FilePositions(data.entries)
         IN  /\ data.status = 200
             /\ ~data.isArray => files_ = << procs'[p].rfile >>
             /\ data.isArray =>
                  /\ Len(files_) = Cardinality(pos)
                  /\ \E f \in [1..Len(files_) -> pos] :
                       /\ \A j, k \in 1..Len(files_) : j < k => f[j] < f[k]
                       /\ \A k \in 1..Len(files_) : files_[k] = data.entries[f[k]].path
                  /\ \A i \in 1..Len(data.entries) :
                       data.entries[i].type # "file" =>
                         \A k \in 1..Len(files_) : files_[k] # data.entries[i].path]_vars

\* A directory holding two files, a link and a sub-directory was listed.
C14_Witness ==
  \E p \in Procs :
    /\ Done(p, "list")
    /\ procs[p].exit = 0
    /\ procs[p].rfile = RDir
    /\ procs[p].listing = << RFixed, RFile >>
    /\ Len(DirEntries) > Len(procs[p].listing)

\* The marker the remote holds for the file a sidecar names, on a branch.
RemoteMarker(l, branch) == RemoteFileAt(remote, ObjGet(Sidecar(l), "path"), branch).sha

\* C15: when a checkin command has just succeeded, the sha in the sidecar
\* is the marker the remote holds for the file on the branch committed to;
\* and a checkin command that follows a successful checkin of the same
\* local file to the same branch, nothing else in between, succeeds.
C15_CommitMarkerReusable ==
  /\ Quiet /\ lastCmd.kind = "checkin" /\ lastCmd.ok =>
       ObjGet(Sidecar(lastCmd.lfile), "sha") = RemoteMarker(lastCmd.lfile, lastCmd.branch)
  /\ \A p \in Procs :
       /\ Done(p, "checkin")
       /\ procs[p].prev.kind = "checkin" /\ procs[p].prev.ok
       /\ procs[p].prev.lfile = procs[p].lfile
       /\ procs[p].prev.branch = procs[p].branch
       => procs[p].exit = 0

\* C16: in every interleaving, the content a successful update commits is
\* prepend + replaceAll(c, find, replace) + append for the content c the
\* remote held immediately before that commit, and that c is what the
\* update had fetched: no write landed in between.
C16_UpdateCommitsOnCurrentContent ==
  \A i \in 1..Len(writes) :
    LET e == writes[i]
        held == DecodeContent(e.before.content)
    IN  e.cmd = "update" /\ e.ok =>
          /\ e.content = Prefix(e.opts) \o Replaced(held, e.opts) \o Suffix(e.opts)
          /\ e.fetched = held
          /\ e.sha = e.before.sha

\* Two updates raced: one landed between the other's fetch and commit, the
\* other was refused, ran again and committed on top of the first.
C16_Witness ==
  \E i, k, j \in 1..Len(writes) :
    /\ i < k /\ k < j
    /\ writes[i].ok /\ ~writes[k].ok /\ writes[j].ok
    /\ writes[k].cmd = "update" /\ writes[j].cmd = "update"
    /\ writes[i].proc # writes[k].proc
    /\ writes[k].fetched # DecodeContent(writes[k].before.content)
    /\ writes[j].fetched = DecodeContent(writes[i].after.content)

\* Both processes have finished a checkout command that wrote local path l
\* and the operator has not touched the file.
BothCheckedOut(l) ==
  /\ \A p \in Procs :
       Done(p, "checkout") /\ procs[p].exit = 0 /\ OutputPath(procs[p]) = l
  /\ edits = 0

\* Content file and sidecar of l both come from the fetch of process p.
FromFetchOf(p, l) ==
  /\ files[l].exists /\ files[l].content = procs[p].result.content
  /\ metas[l].exists
  /\ ObjGet(Sidecar(l), "path") = procs[p].result.path
  /\ ObjGet(Sidecar(l), "sha") = procs[p].result.sha

\* C17 as stated: in every interleaving of two checkout commands that write
\* the same local path, once both have finished, content file and sidecar
\* come from the same fetch.
C17_CheckoutsLeaveOneSnapshot ==
  \A l \in LocalPaths : BothCheckedOut(l) => \E p \in Procs : FromFetchOf(p, l)

\* C17 amended: when neither of the two checkout commands started while
\* another command was running, content file and sidecar come from the same
\* fetch; in every interleaving the content is that of one of the two
\* fetches and the sidecar's path and sha are those of one of the two.
C17_SequentialCheckoutsLeaveOneSnapshot ==
  \A l \in LocalPaths :
    BothCheckedOut(l) =>
      /\ (\A p \in Procs : procs[p].alone) => \E p \in Procs : FromFetchOf(p, l)
      /\ \E p \in Procs : files[l].exists /\ files[l].content = procs[p].result.content
      /\ \E p \in Procs :
           /\ metas[l].exists
           /\ ObjGet(Sidecar(l), "path") = procs[p].result.path
           /\ ObjGet(Sidecar(l), "sha") = procs[p].result.sha

\* Two checkout commands ran one after the other on the same local path
\* and fetched different versions of the remote file.
C17_Witness ==
  \E l \in LocalPaths :
    /\ BothCheckedOut(l)
    /\ \A p \in Procs : procs[p].alone
    /\ \E p, q \in Procs :
         procs[p].result.sha # procs[q].result.sha /\ FromFetchOf(q, l)

\* The revision markers the remote file has had on a branch: the initial
\* one and the one of every version an accepted write created there.
MarkersOn(path, branch) ==
  IF path # RFile \/ branch \notin Branches THEN {}
  ELSE {Blob(0)} \cup
       {writes[i].after.sha :
          i \in {j \in 1..Len(writes) :
                   writes[j].ok /\ writes[j].path = path /\ writes[j].branch = branch}}

\* C18: between commands, the sha of every sidecar is a revision marker of
\* the sidecar's path on the sidecar's recorded branch.
C18_SidecarBranchAndShaConsistent ==
  Quiet =>
    \A l \in LocalPaths :
      metas[l].exists =>
        ObjGet(Sidecar(l), "sha") \in
          MarkersOn(ObjGet(Sidecar(l), "path"), ObjGet(Sidecar(l), "branch"))

\* C19: whenever update calls checkin, the content it submits differs from
\* the content it fetched.
C19_UpdateNeverCommitsFetchedContent ==
  \A i \in 1..Len(writes) :
    writes[i].cmd = "update" => writes[i].content # writes[i].fetched

====
